---- MODULE Spec2Model ----
(***************************************************************************)
(* Boston Trees Explorer (pusczko_final_project.py): a Streamlit script    *)
(* that loads a CSV of tree records once (st.cache_data) and, on every     *)
(* interaction of a browser session, reruns main() with the session's      *)
(* current widget values and renders one of three pages.                   *)
(*                                                                         *)
(* Representation.                                                         *)
(*  - A cell is a sequence: <<>> is a missing value (NaN / None), <<v>> a   *)
(*    present value v.  Comparisons with a missing cell are false, as in   *)
(*    pandas.                                                              *)
(*  - Numbers are kept in tenths (2.5 is 25), so fractional DBH values and *)
(*    coordinates just outside a bound (180.1) are representable.  Widget  *)
(*    values produced by int() are whole units.                            *)
(*  - Text values (species, neighborhood, park) are numeric ids; ids order *)
(*    the way sorted() orders the names.  Id 0 is the string "Unknown".    *)
(*  - A raw numeric CSV cell is a sequence of characters.                  *)
(*  - A row carries idx, the pandas index label, which every derived frame *)
(*    keeps.                                                               *)
(***************************************************************************)
EXTENDS Integers, Sequences, FiniteSets, TLC

VARIABLES
    csv,       \* the rows of bprd_trees.csv as read (raw cells)
    df,        \* the table load_data returned, held by st.cache_data
    sessions,  \* the browser sessions served by the process
    page,      \* page[s]: the view selected in session s's sidebar radio
    sel,       \* sel[s]: the value of the page's selectbox / slider
    out,       \* out[s]: what the last rerun of main() rendered in session s
    prev       \* prev[s]: the page session s showed before this one (history)

vars == <<csv, df, sessions, page, sel, out, prev>>

\* ------------------------------------------------------------------ bounds

MaxRows == 2
MaxSpecies == 31
MaxPairRows == 2

\* ------------------------------------------------------- program constants

top_n == 30
TopTen == 10
Tab20 == 20
LegendTop == 10
DbhSentinel == 5
Unknown == 0
LonMin == -180
LonMax == 180
LatMin == -90
LatMax == 90

NaN == <<>>

colors ==
    << <<255, 0, 0>>, <<0, 0, 255>>, <<0, 128, 0>>, <<255, 165, 0>>, <<128, 0, 128>>,
       <<165, 42, 42>>, <<255, 192, 203>>, <<0, 255, 255>>, <<255, 255, 0>>, <<0, 0, 0>> >>

Gray == <<169, 169, 169>>

Pages == {"Trees by Neighborhood", "Map of Trees in Parks", "Tree Diameter Filter"}

\* ------------------------------------------------------------ pd.to_numeric

Digits == {"0", "1", "2", "3", "4", "5", "6", "7", "8", "9"}

DigitVal(c) ==
    CASE c = "0" -> 0 [] c = "1" -> 1 [] c = "2" -> 2 [] c = "3" -> 3 [] c = "4" -> 4
      [] c = "5" -> 5 [] c = "6" -> 6 [] c = "7" -> 7 [] c = "8" -> 8 [] c = "9" -> 9

IsDigits(s) == \A i \in 1..Len(s) : s[i] \in Digits

RECURSIVE DigitsVal(_)
DigitsVal(s) ==
    IF s = <<>> THEN 0
    ELSE 10 * DigitsVal(SubSeq(s, 1, Len(s) - 1)) + DigitVal(s[Len(s)])

\* pd.to_numeric(errors='coerce') on one cell of a column read by read_csv:
\* an empty cell and a cell that is not a decimal numeral become NaN, a
\* numeral becomes its value (in tenths; raw cells of the model carry at most
\* one fractional digit).
to_numeric(s) ==
    LET neg  == s # <<>> /\ s[1] = "-"
        body == IF neg THEN Tail(s) ELSE s
        dots == {i \in 1..Len(body) : body[i] = "."}
        dot  == IF dots = {} THEN Len(body) + 1 ELSE CHOOSE i \in dots : TRUE
        ip   == SubSeq(body, 1, dot - 1)
        fp   == SubSeq(body, dot + 1, Len(body))
        ok   == /\ Cardinality(dots) <= 1
                /\ IsDigits(ip) /\ IsDigits(fp)
                /\ Len(ip) + Len(fp) >= 1
                /\ Len(fp) <= 1
        mag  == 10 * DigitsVal(ip) + DigitsVal(fp)
    IN  IF ok THEN <<IF neg THEN 0 - mag ELSE mag>> ELSE NaN

\* faulty variant: a DBH that is not a number is loaded as 0
load_data_fillna(raw) ==
    [i \in 1..Len(raw) |->
        [idx          |-> i - 1,
         spp_com      |-> raw[i].spp_com,
         dbh          |-> IF to_numeric(raw[i].dbh) = NaN THEN <<0>>
                          ELSE to_numeric(raw[i].dbh),
         point_x      |-> to_numeric(raw[i].point_x),
         point_y      |-> to_numeric(raw[i].point_y),
         neighborhood |-> raw[i].neighborhood,
         park         |-> raw[i].park]]

\* load_data: every row read, the three numeric columns coerced
load_data(raw) ==
    [i \in 1..Len(raw) |->
        [idx          |-> i - 1,
         spp_com      |-> raw[i].spp_com,
         dbh          |-> to_numeric(raw[i].dbh),
         point_x      |-> to_numeric(raw[i].point_x),
         point_y      |-> to_numeric(raw[i].point_y),
         neighborhood |-> raw[i].neighborhood,
         park         |-> raw[i].park]]

\* ------------------------------------------------------------ pandas pieces

Min(a, b) == IF a <= b THEN a ELSE b

\* Series.head(n)
head(s, n) == SubSeq(s, 1, Min(n, Len(s)))

Column(d, c) == [i \in 1..Len(d) |-> d[i][c]]

\* column == value: false on a missing cell and for the value None
EqCell(c, v) == c # NaN /\ v # NaN /\ c = v

\* the ids of a set in ascending order
SortedIds(S) ==
    LET below == [x \in S |-> Cardinality({y \in S : y < x})]
    IN  [k \in 1..Cardinality(S) |-> CHOOSE x \in S : below[x] = k - 1]

\* distinct non-missing values of a column, in order of first appearance
Uniques(col) ==
    LET firsts == SortedIds({i \in 1..Len(col) :
                      col[i] # NaN /\ \A j \in 1..(i - 1) : col[j] # col[i]})
    IN  [k \in 1..Len(firsts) |-> col[firsts[k]]]

CountOf(col, x) == Cardinality({i \in 1..Len(col) : col[i] = x})

\* sort_values(ascending=False) of <<value, count>> entries: an entry comes
\* after the entries with a higher count and the earlier ones with its own
SortDesc(s) ==
    LET Before(j, i) == s[j][2] > s[i][2] \/ (s[j][2] = s[i][2] /\ j < i)
        rank == [i \in 1..Len(s) |-> 1 + Cardinality({j \in 1..Len(s) : Before(j, i)})]
    IN  [k \in 1..Len(s) |-> s[CHOOSE i \in 1..Len(s) : rank[i] = k]]

\* faulty variant: the counts left in order of first appearance
value_counts_unsorted(col) ==
    LET u == Uniques(col)
    IN  [i \in 1..Len(u) |-> <<u[i], CountOf(col, u[i])>>]

\* Series.value_counts(): <<value, count>> per distinct non-missing value,
\* highest count first (equal counts are taken in order of first appearance)
value_counts(col) ==
    LET u == Uniques(col)
    IN  SortDesc([i \in 1..Len(u) |-> <<u[i], CountOf(col, u[i])>>])

\* sorted(df[c].dropna().unique())
sorted_unique(d, c) ==
    SortedIds({d[i][c][1] : i \in {j \in 1..Len(d) : d[j][c] # NaN}})

\* Series.min() / Series.max(): missing values skipped, NaN when none is left
Present(col) == {col[i][1] : i \in {j \in 1..Len(col) : col[j] # NaN}}

series_min(col) ==
    IF Present(col) = {} THEN NaN
    ELSE <<CHOOSE x \in Present(col) : \A y \in Present(col) : x <= y>>

series_max(col) ==
    IF Present(col) = {} THEN NaN
    ELSE <<CHOOSE x \in Present(col) : \A y \in Present(col) : x >= y>>

\* int(): truncation toward zero of a value in tenths, giving whole units
int(v) == IF v >= 0 THEN v \div 10 ELSE 0 - ((0 - v) \div 10)

\* ---------------------------------------------------------------- functions

\* faulty variant: the upper end excluded
filter_trees_by_dbh_open(d, min_dbh, max_dbh) ==
    SelectSeq(d, LAMBDA r : r.dbh # NaN /\ r.dbh[1] >= 10 * min_dbh
                                       /\ r.dbh[1] < 10 * max_dbh)

\* df[(df['dbh'] >= min_dbh) & (df['dbh'] <= max_dbh)], bounds in whole units
filter_trees_by_dbh(d, min_dbh, max_dbh) ==
    SelectSeq(d, LAMBDA r : r.dbh # NaN /\ r.dbh[1] >= 10 * min_dbh
                                       /\ r.dbh[1] <= 10 * max_dbh)

\* faulty variant: the counts not sorted
neighborhood_tree_counts_unsorted(d, neighborhood) ==
    LET nb_data == SelectSeq(d, LAMBDA r : EqCell(r.neighborhood, neighborhood))
    IN  [counts  |-> value_counts_unsorted(Column(nb_data, "spp_com")),
         total   |-> Len(nb_data),
         nb_data |-> nb_data]

\* the neighborhood's rows, their species counts and their number
neighborhood_tree_counts(d, neighborhood) ==
    LET nb_data == SelectSeq(d, LAMBDA r : EqCell(r.neighborhood, neighborhood))
    IN  [counts  |-> value_counts(Column(nb_data, "spp_com")),
         total   |-> Len(nb_data),
         nb_data |-> nb_data]

\* faulty variant: the list under the chart taken from the end of the bars
display_bar_chart_tail(series_counts, n) ==
    LET top_series == head(series_counts, n)
    IN  [top_series |-> top_series,
         color_list |-> [i \in 1..Len(top_series) |-> (i - 1) % Tab20],
         top_10     |-> SubSeq(top_series, Len(top_series) - Min(TopTen, Len(top_series)) + 1,
                               Len(top_series))]

\* the bars drawn (with the index of each bar's tab20 color) and the list
\* written under "Top 10 Species by Count"
display_bar_chart(series_counts, n) ==
    LET top_series == head(series_counts, n)
    IN  [top_series |-> top_series,
         color_list |-> [i \in 1..Len(top_series) |-> (i - 1) % Tab20],
         top_10     |-> head(top_series, TopTen)]

\* Series.between(lo, hi), inclusive, on a coordinate in tenths
between(c, lo, hi) == c # NaN /\ c[1] >= 10 * lo /\ c[1] <= 10 * hi

fillna(c, v) == IF c = NaN THEN <<v>> ELSE c

\* color_map.get(s, gray) over color_map = {top_species[i]: colors[i]}
ColorOf(top_species, s) ==
    IF \E i \in 1..Len(top_species) : top_species[i] = s
    THEN colors[CHOOSE i \in 1..Len(top_species) : top_species[i] = s]
    ELSE Gray

\* faulty variant: the latitude range not tested
ValidPointsLonOnly(df_points) ==
    SelectSeq(df_points, LAMBDA r : /\ r.point_x # NaN /\ r.point_y # NaN
                                    /\ between(r.point_x, LonMin, LonMax))

\* the rows kept for the map: coordinates present and in range
ValidPoints(df_points) ==
    SelectSeq(df_points, LAMBDA r : /\ r.point_x # NaN /\ r.point_y # NaN
                                    /\ between(r.point_x, LonMin, LonMax)
                                    /\ between(r.point_y, LatMin, LatMax))

\* faulty variant: one species short
TopSpeciesNine(filled) ==
    LET vc == head(value_counts(Column(filled, "spp_com")), LegendTop - 1)
    IN  [i \in 1..Len(vc) |-> vc[i][1]]

\* the top species of the filled points
TopSpecies(filled) ==
    LET vc == head(value_counts(Column(filled, "spp_com")), LegendTop)
    IN  [i \in 1..Len(vc) |-> vc[i][1]]

\* build_pydeck_map: the st.info message, or the layer's data and the legend
build_pydeck_map(df_points) ==
    LET valid  == ValidPoints(df_points)
        filled == [i \in 1..Len(valid) |->
                     [valid[i] EXCEPT !.dbh = fillna(@, 10 * DbhSentinel),
                                      !.spp_com = fillna(@, Unknown)]]
        top_species == TopSpecies(filled)
    IN  IF valid = <<>>
        THEN [message |-> "No valid coordinate data to display.",
              chart   |-> "none",
              points  |-> <<>>,
              legend  |-> <<>>]
        ELSE [message |-> "",
              chart   |-> "map",
              points  |-> [i \in 1..Len(filled) |->
                             [row   |-> filled[i],
                              color |-> ColorOf(top_species, filled[i].spp_com)]],
              legend  |-> [i \in 1..Len(top_species) |->
                             <<top_species[i], colors[i]>>]]

\* ax.pie over the counts
plot_pie(series_counts) == [chart |-> "pie", series |-> series_counts]

\* -------------------------------------------------------------------- main

NoOutput ==
    [header     |-> "",
     options    |-> <<>>,      \* the selectbox options / the slider's <<min, max>>
     total      |-> NaN,       \* the number in "Total trees in ...: n"
     frame      |-> <<>>,      \* the derived frame of the page (nb_data, park_data, filtered)
     chart      |-> "none",    \* "bar", "pie", "map" or "none"
     series     |-> <<>>,      \* the series handed to ax.bar / ax.pie
     color_list |-> <<>>,
     top_10     |-> <<>>,
     points     |-> <<>>,      \* the ScatterplotLayer's data
     legend     |-> <<>>,
     message    |-> "",        \* st.info / st.write empty-state text
     error      |-> "",        \* the exception that ended the run, if any
     footer     |-> FALSE]     \* the closing rule and caption were written

\* st.selectbox: the user's choice among the options, None when there is none
selectbox(options) ==
    IF options = <<>> THEN {NaN} ELSE {<<options[i]>> : i \in 1..Len(options)}

\* st.slider over min_value..max_value with a (low, high) value: any a <= b
\* in it (a slider with min_value = max_value is taken to offer that value)
slider(min_value, max_value) ==
    {r \in {<<a, b>> : a \in min_value..max_value, b \in min_value..max_value} :
        r[1] <= r[2]}

\* Page 1
NeighborhoodView(d, selected_nb) ==
    LET r   == neighborhood_tree_counts(d, selected_nb)
        bar == display_bar_chart(r.counts, top_n)
    IN  [NoOutput EXCEPT
            !.header = "Trees by Neighborhood",
            !.options = sorted_unique(d, "neighborhood"),
            !.total = <<r.total>>,
            !.frame = r.nb_data,
            !.chart = "bar",
            !.series = bar.top_series,
            !.color_list = bar.color_list,
            !.top_10 = bar.top_10,
            !.footer = TRUE]

\* Page 2
ParksView(d, selected_park) ==
    LET park_data == SelectSeq(d, LAMBDA r : EqCell(r.park, selected_park))
        m == build_pydeck_map(park_data)
    IN  [NoOutput EXCEPT
            !.header = "Map of Trees in Parks",
            !.options = sorted_unique(d, "park"),
            !.total = <<Len(park_data)>>,
            !.frame = park_data,
            !.chart = m.chart,
            !.points = m.points,
            !.legend = m.legend,
            !.message = m.message,
            !.footer = TRUE]

\* Page 3; int() of a NaN minimum raises ValueError and ends the run
DiameterChoices(d) ==
    LET lo == series_min(Column(d, "dbh"))
        hi == series_max(Column(d, "dbh"))
    IN  IF lo = NaN THEN {NaN} ELSE slider(int(lo[1]), int(hi[1]))

DiameterView(d, selected_range) ==
    LET lo == series_min(Column(d, "dbh"))
        hi == series_max(Column(d, "dbh"))
    IN  IF lo = NaN
        THEN [NoOutput EXCEPT
                !.header = "Filter Trees by Diameter",
                !.error = "ValueError"]
        ELSE LET filtered == filter_trees_by_dbh(d, selected_range[1], selected_range[2])
                 counts   == value_counts(Column(filtered, "spp_com"))
             IN  [NoOutput EXCEPT
                    !.header = "Filter Trees by Diameter",
                    !.options = <<int(lo[1]), int(hi[1])>>,
                    !.total = <<Len(filtered)>>,
                    !.frame = filtered,
                    !.chart = IF counts # <<>> THEN plot_pie(counts).chart ELSE "none",
                    !.series = IF counts # <<>> THEN plot_pie(counts).series ELSE <<>>,
                    !.message = IF counts # <<>> THEN ""
                                ELSE "No trees found in this diameter range.",
                    !.footer = TRUE]

\* one rerun of main() in session s
Rerun(s, p, v, o) ==
    /\ page' = [page EXCEPT ![s] = p]
    /\ sel' = [sel EXCEPT ![s] = v]
    /\ out' = [out EXCEPT ![s] = o]
    /\ prev' = [prev EXCEPT ![s] = page[s]]
    /\ UNCHANGED <<csv, sessions>>

NeighborhoodPage(s, selected_nb) ==
    /\ selected_nb \in selectbox(sorted_unique(df, "neighborhood"))
    /\ Rerun(s, "Trees by Neighborhood", selected_nb, NeighborhoodView(df, selected_nb))
    /\ UNCHANGED df

\* faulty variant of page 2: the map's fill-in is written to the rendered rows
\* of the cached table itself
FilledInPlace(d, selected_park) ==
    [i \in 1..Len(d) |->
        IF EqCell(d[i].park, selected_park) /\ ValidPoints(<<d[i]>>) # <<>>
        THEN [d[i] EXCEPT !.dbh = fillna(@, 10 * DbhSentinel),
                          !.spp_com = fillna(@, Unknown)]
        ELSE d[i]]

ParksMapPageInPlace(s, selected_park) ==
    /\ selected_park \in selectbox(sorted_unique(df, "park"))
    /\ Rerun(s, "Map of Trees in Parks", selected_park, ParksView(df, selected_park))
    /\ df' = FilledInPlace(df, selected_park)

ParksMapPage(s, selected_park) ==
    /\ selected_park \in selectbox(sorted_unique(df, "park"))
    /\ Rerun(s, "Map of Trees in Parks", selected_park, ParksView(df, selected_park))
    /\ UNCHANGED df

DiameterPage(s, selected_range) ==
    /\ selected_range \in DiameterChoices(df)
    /\ Rerun(s, "Tree Diameter Filter", selected_range, DiameterView(df, selected_range))
    /\ UNCHANGED df

\* ------------------------------------------------------------- the CSV files

Raw(spp, dbh, x, y, nb, park) ==
    [spp_com |-> spp, dbh |-> dbh, point_x |-> x, point_y |-> y,
     neighborhood |-> nb, park |-> park]

Lon == <<"-", "7", "1">>
Lat == <<"4", "2">>

Rows ==
    { \* DBH: empty, not a number, negative and positive fractions, whole;
      \* coordinates: empty, not a number, on a bound, just outside a bound;
      \* species, neighborhood and park: missing, a second one
      Raw(<<1>>, <<>>,                   Lon, Lat, <<1>>, <<1>>),
      Raw(<<2>>, <<"x">>,                <<"1", "8", "0">>, <<"9", "0">>, <<1>>, <<1>>),
      Raw(<<1>>, <<"-", "1", ".", "5">>, Lon, <<"x">>, <<1>>, <<1>>),
      Raw(<<2>>, <<"1", ".", "5">>,      Lon, Lat, <<2>>, <<2>>),
      Raw(<<1>>, <<"2">>,                <<>>, Lat, <<1>>, <<1>>),
      Raw(NaN,   <<>>,                   <<"-", "1", "8", "0">>, <<"-", "9", "0">>, <<1>>, <<1>>),
      Raw(<<1>>, <<"2">>,                <<"1", "8", "0", ".", "1">>, Lat, <<1>>, <<1>>),
      Raw(<<1>>, <<"2">>,                <<"-", "1", "8", "0", ".", "1">>, Lat, <<2>>, <<2>>),
      Raw(<<1>>, <<"2">>,                Lon, <<"9", "0", ".", "1">>, <<1>>, <<2>>),
      Raw(<<2>>, <<"2">>,                Lon, <<"-", "9", "0", ".", "1">>, <<1>>, <<1>>),
      Raw(<<1>>, <<"2">>,                Lon, Lat, NaN, NaN),
      Raw(NaN,   <<"2">>,                Lon, Lat, <<2>>, NaN) }

SmallTables == UNION {[1..n -> Rows] : n \in 0..MaxRows}

\* k species in one neighborhood and park, one row each in species order and
\* then a second row for the species Extra picks, so that the order of first
\* appearance and the order of counts differ; shape "last" ends with a row
\* that has no species and no DBH
Shapes == {"flat", "even", "last"}

Extra(i, k, shape) ==
    CASE shape = "flat" -> FALSE
      [] shape = "even" -> i % 2 = 0
      [] shape = "last" -> i > k - 3

BigRow(i) ==
    Raw(<<i>>,
        IF i % 2 = 1 THEN <<"2">> ELSE <<"3", ".", "5">>,
        IF i % 7 = 0 THEN <<>> ELSE Lon,
        Lat, <<1>>, <<1>>)

BigTable(k, shape) ==
    LET first  == [i \in 1..k |-> i]
        second == SelectSeq(first, LAMBDA i : Extra(i, k, shape))
    IN  [i \in 1..k |-> BigRow(i)] \o [j \in 1..Len(second) |-> BigRow(second[j])]
        \o (IF shape = "last" THEN <<Raw(NaN, <<>>, Lon, Lat, <<1>>, <<1>>)>> ELSE <<>>)

\* the sizes around the legend's and the top-10 list's length, and around top_n
BigSizes == {k \in 0..MaxSpecies : k <= LegendTop + 2 \/ k >= top_n - 1}

BigTables == {BigTable(k, shape) : k \in BigSizes, shape \in Shapes}

PairRows ==
    { Raw(NaN,   <<>>,               Lon, Lat, <<1>>, <<1>>),
      Raw(<<1>>, <<"1", ".", "5">>,  Lon, Lat, <<1>>, <<1>>),
      Raw(<<2>>, <<"2">>,            <<>>, Lat, <<1>>, <<2>>),
      Raw(<<1>>, <<"x">>,            Lon, Lat, <<2>>, <<2>>) }

PairTables == UNION {[1..n -> PairRows] : n \in 0..MaxPairRows}

\* ------------------------------------------------------------ specification

Started(files, S) ==
    /\ csv \in files
    /\ df = load_data(csv)
    /\ sessions = S
    /\ page = [s \in S |-> ""]
    /\ sel = [s \in S |-> NaN]
    /\ out = [s \in S |-> NoOutput]
    /\ prev = [s \in S |-> ""]

Init == Started(SmallTables \cup BigTables, {1})

InitPair == Started(PairTables, {1, 2})

\* what a user can be offered: no option, a neighborhood or park id, a range
TextChoices == {NaN, <<1>>, <<2>>}

RangeChoices == {NaN} \cup slider(0 - 2, 4)

\* a user of some session picks a neighborhood on page 1
SelectNeighborhood ==
    \E s \in sessions :
        \E selected_nb \in TextChoices :
            NeighborhoodPage(s, selected_nb)

\* ... a park on page 2
SelectPark ==
    \E s \in sessions :
        \E selected_park \in TextChoices :
            ParksMapPage(s, selected_park)

\* ... a diameter range on page 3
SelectRange ==
    \E s \in sessions :
        \E selected_range \in RangeChoices :
            DiameterPage(s, selected_range)

Next == SelectNeighborhood \/ SelectPark \/ SelectRange

Spec == Init /\ [][Next]_vars

SpecPair == InitPair /\ [][Next]_vars

\* ------------------------------------------------------------------- claims

Rendered(s, p) == page[s] = p /\ out[s].error = ""

RowIdx(d) == {d[i].idx : i \in 1..Len(d)}

DbhInRange(r, a, b) == r.dbh # NaN /\ 10 * a <= r.dbh[1] /\ r.dbh[1] <= 10 * b

\* f holds exactly the rows of d with a <= dbh <= b, unchanged and in order
ExactlyInRange(d, f, a, b) ==
    /\ \A k \in 1..Len(f) : DbhInRange(f[k], a, b) /\ \E i \in 1..Len(d) : d[i] = f[k]
    /\ \A i \in 1..Len(d) : DbhInRange(d[i], a, b) => \E k \in 1..Len(f) : f[k] = d[i]
    /\ \A k \in 1..Len(f) : \A m \in 1..Len(f) : k < m => f[k].idx < f[m].idx

\* C1: filter_trees_by_dbh(df, a, b) returns exactly the rows of df with
\* a <= dbh <= b (both ends inclusive), in their original order and with
\* their values, for every pair of bounds (a > b included) and in particular
\* for the range the Tree Diameter Filter page passes.
C1_FilterExact ==
    /\ \A a \in (0 - 2)..2 : \A b \in (0 - 2)..2 :
           ExactlyInRange(df, filter_trees_by_dbh(df, a, b), a, b)
    /\ \A s \in sessions :
           Rendered(s, "Tree Diameter Filter") =>
               ExactlyInRange(df, out[s].frame, sel[s][1], sel[s][2])

\* the page filtered with a range that keeps a row on each end of the range
\* and leaves another row with a DBH out
C1_Witness ==
    \E s \in sessions :
        /\ Rendered(s, "Tree Diameter Filter")
        /\ \E k \in 1..Len(out[s].frame) : out[s].frame[k].dbh[1] = 10 * sel[s][2]
        /\ \E i \in 1..Len(df) : df[i].dbh # NaN /\ df[i].idx \notin RowIdx(out[s].frame)

ValidCoordinates(r) ==
    /\ r.point_x # NaN /\ r.point_y # NaN
    /\ 10 * LonMin <= r.point_x[1] /\ r.point_x[1] <= 10 * LonMax
    /\ 10 * LatMin <= r.point_y[1] /\ r.point_y[1] <= 10 * LatMax

PointIdx(s) == {out[s].points[k].row.idx : k \in 1..Len(out[s].points)}

\* C2: on the Map of Trees in Parks page every point handed to the layer has
\* a present longitude in [-180, 180] and latitude in [-90, 90], is a record
\* of the selected park, and every record of the park with valid coordinates
\* is among the points (once).
C2_MapPointsValid ==
    \A s \in sessions :
        Rendered(s, "Map of Trees in Parks") =>
            /\ \A k \in 1..Len(out[s].points) : ValidCoordinates(out[s].points[k].row)
            /\ \A i \in 1..Len(df) :
                   (EqCell(df[i].park, sel[s]) /\ ValidCoordinates(df[i]))
                       <=> df[i].idx \in PointIdx(s)
            /\ Cardinality(PointIdx(s)) = Len(out[s].points)

\* a map drawn for a park that has a record on a coordinate bound and a record
\* with a missing or out-of-range coordinate
C2_Witness ==
    \E s \in sessions :
        /\ Rendered(s, "Map of Trees in Parks")
        /\ \E k \in 1..Len(out[s].points) :
               out[s].points[k].row.point_x[1] \in {10 * LonMin, 10 * LonMax}
        /\ \E i \in 1..Len(df) : EqCell(df[i].park, sel[s]) /\ ~ValidCoordinates(df[i])

\* the rows the current selection of session s matches
Matched(s) ==
    CASE page[s] = "Trees by Neighborhood" ->
             {i \in 1..Len(df) : EqCell(df[i].neighborhood, sel[s])}
      [] page[s] = "Map of Trees in Parks" ->
             {i \in 1..Len(df) : EqCell(df[i].park, sel[s]) /\ ValidCoordinates(df[i])}
      [] page[s] = "Tree Diameter Filter" ->
             {i \in 1..Len(df) : sel[s] # NaN /\ DbhInRange(df[i], sel[s][1], sel[s][2])}
      [] OTHER -> {}

\* C3: in each of the three views, when the selection matches no rows the app
\* shows an informational message and renders no chart or map.
C3_EmptyStateMessage ==
    \A s \in sessions :
        (page[s] \in Pages /\ Matched(s) = {}) =>
            out[s].message # "" /\ out[s].chart = "none"

\* C4: the table load_data returned is never changed by any interaction:
\* its rows, columns and values stay those of the load.
C4_TableNeverChanged == df = load_data(csv)

\* a map was drawn whose points carry the filled-in DBH and species while the
\* table's row still has them missing
C4_Witness ==
    \E s \in sessions :
        /\ Rendered(s, "Map of Trees in Parks")
        /\ \E k \in 1..Len(out[s].points) : \E i \in 1..Len(df) :
               /\ df[i].idx = out[s].points[k].row.idx
               /\ df[i].dbh = NaN /\ df[i].spp_com = NaN
               /\ out[s].points[k].row.dbh = <<10 * DbhSentinel>>
               /\ out[s].points[k].row.spp_com = <<Unknown>>
        /\ prev[s] # ""

\* C5: what a session renders is a function of the loaded table and the
\* current view and selection only: two sessions over the same table that
\* show the same view with the same selection show the same output, whatever
\* was selected before in either of them.
C5_PureRecomputation ==
    \A s \in sessions : \A u \in sessions :
        (page[s] = page[u] /\ sel[s] = sel[u]) => out[s] = out[u]

\* two sessions drew the same park's map, one coming from the neighborhood
\* page and one from the diameter page
C5_Witness ==
    \E s \in sessions : \E u \in sessions :
        /\ s # u
        /\ Rendered(s, "Map of Trees in Parks") /\ Rendered(u, "Map of Trees in Parks")
        /\ sel[s] = sel[u]
        /\ out[s].points # <<>>
        /\ prev[s] = "Trees by Neighborhood" /\ prev[u] = "Tree Diameter Filter"

\* a raw cell that is empty or holds a character no numeral has
MissingOrInvalid(cell) ==
    cell = <<>> \/ \E i \in 1..Len(cell) : cell[i] \notin Digits \cup {"-", "."}

\* C6: a record whose DBH is missing or not a number is loaded (no row is
\* lost) with a missing DBH; it is in the result of the diameter filter for
\* no range; on the map it carries DBH 5, and a record with a missing species
\* is drawn as "Unknown".
C6_MissingDbhHandled ==
    /\ Len(df) = Len(csv)
    /\ \A i \in 1..Len(csv) :
           MissingOrInvalid(csv[i].dbh) => df[i].idx = i - 1 /\ df[i].dbh = NaN
    /\ \A a \in (0 - 2)..2 : \A b \in (0 - 2)..2 :
           LET f == filter_trees_by_dbh(df, a, b)
           IN  \A k \in 1..Len(f) : ~MissingOrInvalid(csv[f[k].idx + 1].dbh)
    /\ \A s \in sessions :
           Rendered(s, "Tree Diameter Filter") =>
               \A k \in 1..Len(out[s].frame) :
                   ~MissingOrInvalid(csv[out[s].frame[k].idx + 1].dbh)
    /\ \A s \in sessions :
           Rendered(s, "Map of Trees in Parks") =>
               \A k \in 1..Len(out[s].points) :
                   LET r == out[s].points[k].row
                   IN  /\ MissingOrInvalid(csv[r.idx + 1].dbh) => r.dbh = <<10 * DbhSentinel>>
                       /\ csv[r.idx + 1].spp_com = NaN => r.spp_com = <<Unknown>>

\* a map with a point whose DBH cell was not a number and whose species was
\* missing, drawn after the diameter page filtered the same table
C6_Witness ==
    \E s \in sessions :
        /\ Rendered(s, "Map of Trees in Parks")
        /\ prev[s] = "Tree Diameter Filter"
        /\ \E k \in 1..Len(out[s].points) :
               csv[out[s].points[k].row.idx + 1].dbh = <<"x">>
        /\ \E k \in 1..Len(out[s].points) :
               /\ csv[out[s].points[k].row.idx + 1].dbh = <<>>
               /\ csv[out[s].points[k].row.idx + 1].spp_com = NaN

RECURSIVE SumCounts(_)
SumCounts(s) == IF s = <<>> THEN 0 ELSE s[1][2] + SumCounts(Tail(s))

NbRows(n) == {i \in 1..Len(df) : df[i].neighborhood = <<n>>}

\* C7: for every neighborhood n, neighborhood_tree_counts(df, n) returns as
\* total the number of rows of n, and as counts one entry per distinct
\* non-missing species of those rows with the number of those rows of that
\* species, in non-increasing order of count; the counts sum to the total
\* minus the rows of n without a species; a neighborhood offered in the
\* select box has a total of at least 1; the page reports that total.
C7_NeighborhoodCounts ==
    /\ \A n \in 1..2 :
           LET r == neighborhood_tree_counts(df, <<n>>)
               c == r.counts
           IN  /\ r.total = Cardinality(NbRows(n))
               /\ \A k \in 1..Len(c) :
                      /\ c[k][1] # NaN
                      /\ c[k][2] = Cardinality({i \in NbRows(n) : df[i].spp_com = c[k][1]})
                      /\ c[k][2] >= 1
                      /\ \A m \in 1..Len(c) : k # m => c[k][1] # c[m][1]
                      /\ k < Len(c) => c[k][2] >= c[k + 1][2]
               /\ \A i \in NbRows(n) :
                      df[i].spp_com # NaN => \E k \in 1..Len(c) : c[k][1] = df[i].spp_com
               /\ SumCounts(c) = r.total - Cardinality({i \in NbRows(n) : df[i].spp_com = NaN})
    /\ \A s \in sessions :
           Rendered(s, "Trees by Neighborhood") =>
               /\ \A k \in 1..Len(out[s].options) :
                      neighborhood_tree_counts(df, <<out[s].options[k]>>).total >= 1
               /\ sel[s] # NaN =>
                      /\ out[s].total = <<Cardinality(NbRows(sel[s][1]))>>
                      /\ out[s].total[1] >= 1

\* the page of a neighborhood with species of different counts, a species seen
\* first that is not the most frequent, and a row without a species
C7_Witness ==
    \E s \in sessions :
        /\ Rendered(s, "Trees by Neighborhood")
        /\ Len(out[s].series) >= 2
        /\ out[s].series[1][2] > out[s].series[Len(out[s].series)][2]
        /\ out[s].series[1][1] # out[s].frame[1].spp_com
        /\ \E k \in 1..Len(out[s].frame) : out[s].frame[k].spp_com = NaN

\* C8: display_bar_chart plots exactly the first min(30, k) entries of the
\* k-entry count series, the "Top 10 Species by Count" list is exactly the
\* first min(10, k) of the plotted entries with the same counts, and no
\* species with a higher count than a plotted one is left out.
C8_BarChartTop ==
    \A s \in sessions :
        Rendered(s, "Trees by Neighborhood") =>
            LET c == neighborhood_tree_counts(df, sel[s]).counts
                plotted == out[s].series
                listed  == out[s].top_10
            IN  /\ out[s].chart = "bar"
                /\ Len(plotted) = Min(top_n, Len(c))
                /\ \A k \in 1..Len(plotted) : plotted[k] = c[k]
                /\ Len(listed) = Min(TopTen, Len(c))
                /\ \A k \in 1..Len(listed) : listed[k] = plotted[k]
                /\ \A m \in 1..Len(c) :
                       (\A k \in 1..Len(plotted) : plotted[k][1] # c[m][1]) =>
                           \A k \in 1..Len(plotted) : c[m][2] <= plotted[k][2]

\* a neighborhood with more than 30 species of different counts: 30 plotted,
\* 10 listed, the rest left out
C8_Witness ==
    \E s \in sessions :
        /\ Rendered(s, "Trees by Neighborhood")
        /\ Len(neighborhood_tree_counts(df, sel[s]).counts) > top_n
        /\ Len(out[s].series) = top_n
        /\ Len(out[s].top_10) = TopTen
        /\ out[s].series[1][2] > out[s].series[top_n][2]

PointSpecies(s) == {out[s].points[k].row.spp_com : k \in 1..Len(out[s].points)}

Freq(s, x) ==
    Cardinality({k \in 1..Len(out[s].points) : out[s].points[k].row.spp_com = x})

LegendSpecies(s) == {out[s].legend[i][1] : i \in 1..Len(out[s].legend)}

\* C9: on the park map the (at most 10) most frequent species among the
\* rendered points each get a distinct color of the 10-color palette, by
\* frequency rank; a point of such a species has that color and a point of any
\* other species is gray; the legend lists exactly those species with the
\* color their points have.
C9_MapColors ==
    \A s \in sessions :
        Rendered(s, "Map of Trees in Parks") =>
            LET L == out[s].legend
            IN  /\ Len(L) = Min(LegendTop, Cardinality(PointSpecies(s)))
                /\ LegendSpecies(s) \subseteq PointSpecies(s)
                /\ \A i \in 1..Len(L) :
                       /\ L[i][2] = colors[i]
                       /\ L[i][2] # Gray
                       /\ \A j \in 1..Len(L) : i # j =>
                              L[i][1] # L[j][1] /\ L[i][2] # L[j][2]
                       /\ i < Len(L) => Freq(s, L[i][1]) >= Freq(s, L[i + 1][1])
                       /\ \A x \in PointSpecies(s) \ LegendSpecies(s) :
                              Freq(s, x) <= Freq(s, L[i][1])
                /\ \A k \in 1..Len(out[s].points) :
                       LET p == out[s].points[k]
                       IN  IF p.row.spp_com \in LegendSpecies(s)
                           THEN \E i \in 1..Len(L) : L[i] = <<p.row.spp_com, p.color>>
                           ELSE p.color = Gray

\* a map with more than 10 species of different frequencies: gray points and
\* points of all ten palette colors
C9_Witness ==
    \E s \in sessions :
        /\ Rendered(s, "Map of Trees in Parks")
        /\ Cardinality(PointSpecies(s)) > LegendTop
        /\ Len(out[s].legend) = LegendTop
        /\ \E k \in 1..Len(out[s].points) : out[s].points[k].color = Gray
        /\ \E k \in 1..Len(out[s].points) : out[s].points[k].color = colors[LegendTop]
        /\ Freq(s, out[s].legend[1][1]) > Freq(s, out[s].legend[LegendTop][1])

\* C10: with the slider at its default full range int(min dbh)..int(max dbh)
\* the diameter filter selects every row with a DBH: the reported total is the
\* number of rows with a non-missing DBH.
C10_FullRangeCoversData ==
    \A s \in sessions :
        (Rendered(s, "Tree Diameter Filter") /\ sel[s] = out[s].options) =>
            out[s].total = <<Cardinality({i \in 1..Len(df) : df[i].dbh # NaN})>>

====
